---- MODULE Spec2Model ----
\* State-machine model of the AI Product Critique tool (src/app.py, src/prompts.py):
\* the SSRF guard and the web content extractor, the URL classifier, the section
\* splitter and renderer, the session state kept across script runs, and the
\* analysis call with its prompt and its failures.
\*
\* Text is modelled character by character: a string is a sequence of
\* one-character strings.  A markup tag such as <script> is written as one
\* "character" ("<script>"): it is never split by the functions modelled here.
EXTENDS Integers, Sequences, FiniteSets, TLC

VARIABLES
    \* ---- web content extractor (scrape_url) ----
    pc,          \* position of the scrape_url call: idle, guard, get, parse, done
    url,         \* the argument of the call in progress
    guardDns,    \* what socket.getaddrinfo gave the guard in this call
    verdict,     \* what _is_safe_url returned in this call ("none" before it ran)
    requests,    \* the HTTP GETs sent in this call, in order
    response,    \* the response received by the call
    result,      \* what scrape_url returned (None: absent)
    \* ---- pure text functions ----
    text,        \* the input string
    tpc,         \* in, classified, rendered
    isUrl,       \* looks_like_url(text)
    sections,    \* parse_analysis_sections(text)
    index_items, \* (title, slug, i) per section
    sink,        \* the fragments handed to st.markdown(..., unsafe_allow_html=True)
    \* ---- session (main) ----
    started,     \* the script ran at least once in this session
    session,     \* st.session_state
    api_key,     \* the API key in effect (environment, secrets or the key widget)
    outcome,     \* what the last script run did
    analyze      \* the analyze_product call in progress: its position and locals

scrapeVars == <<pc, url, guardDns, verdict, requests, response, result>>
textVars == <<text, tpc, isUrl, sections, index_items, sink>>
sessionVars == <<started, session, api_key, outcome, analyze>>
vars == <<scrapeVars, textVars, sessionVars>>

\* ------------------------------------------------------------------ bounds

\* The most addresses one DNS answer carries.
MaxAddrs == 2

\* ------------------------------------------------------------------ strings

RECURSIVE Concat(_)
Concat(ss) == IF ss = <<>> THEN <<>> ELSE Head(ss) \o Concat(Tail(ss))

\* Python's str.strip() whitespace, as far as the alphabet has it.
IsSpace(c) == c \in {" ", "\n", "\t"}

RECURSIVE LStrip(_)
LStrip(s) == IF s # <<>> /\ IsSpace(Head(s)) THEN LStrip(Tail(s)) ELSE s

RECURSIVE RStrip(_)
RStrip(s) ==
    IF s # <<>> /\ IsSpace(s[Len(s)]) THEN RStrip(SubSeq(s, 1, Len(s) - 1)) ELSE s

Strip(s) == RStrip(LStrip(s))

StartsWith(s, p) == Len(s) >= Len(p) /\ SubSeq(s, 1, Len(p)) = p

UpperToLower ==
    [c \in {"A", "B", "C", "D", "E", "F", "G", "H", "I", "J", "K", "L", "M",
             "N", "O", "P", "Q", "R", "S", "T", "U", "V", "W", "X", "Y", "Z"} |->
        CASE c = "A" -> "a" [] c = "B" -> "b" [] c = "C" -> "c" [] c = "D" -> "d"
          [] c = "E" -> "e" [] c = "F" -> "f" [] c = "G" -> "g" [] c = "H" -> "h"
          [] c = "I" -> "i" [] c = "J" -> "j" [] c = "K" -> "k" [] c = "L" -> "l"
          [] c = "M" -> "m" [] c = "N" -> "n" [] c = "O" -> "o" [] c = "P" -> "p"
          [] c = "Q" -> "q" [] c = "R" -> "r" [] c = "S" -> "s" [] c = "T" -> "t"
          [] c = "U" -> "u" [] c = "V" -> "v" [] c = "W" -> "w" [] c = "X" -> "x"
          [] c = "Y" -> "y" [] c = "Z" -> "z"]

LowerChar(c) == IF c \in DOMAIN UpperToLower THEN UpperToLower[c] ELSE c

\* str.lower()
Lower(s) == [i \in 1..Len(s) |-> LowerChar(s[i])]

\* str.upper()
UpperChar(c) ==
    IF \E u \in DOMAIN UpperToLower : UpperToLower[u] = c
    THEN CHOOSE u \in DOMAIN UpperToLower : UpperToLower[u] = c
    ELSE c

Upper(s) == [i \in 1..Len(s) |-> UpperChar(s[i])]

\* sub in s
Contains(s, sub) ==
    \E i \in 1..(Len(s) - Len(sub) + 1) : SubSeq(s, i, i + Len(sub) - 1) = sub

\* ------------------------------------------------------------------ exceptions

\* A computation's outcome: a value, or the exception it raised.
Ok(v) == [exc |-> "none", val |-> v]
Raise(e) == [exc |-> e, val |-> <<>>]

\* Python's class hierarchy, for the exceptions met here.
ExcParent ==
    [e \in {"ValueError", "UnicodeError", "OSError", "gaierror", "ConnectionError",
            "Timeout", "HTTPError", "Exception"} |->
        CASE e = "UnicodeError" -> "ValueError"
          [] e = "gaierror" -> "OSError"
          [] e = "ConnectionError" -> "OSError"
          [] e = "Timeout" -> "OSError"
          [] e = "HTTPError" -> "OSError"
          [] OTHER -> "Exception"]

\* isinstance(e, classes): e or one of its ancestors is in classes.
IsInstance(e, classes) ==
    \/ e \in classes
    \/ ExcParent[e] \in classes
    \/ ExcParent[ExcParent[e]] \in classes

\* ------------------------------------------------------------------ URLs, DNS

\* A host is the sequence of its dot-separated labels; an IP literal is one label.
\* A URL is the host of its netloc as typed, or a string urlparse rejects.
IpLiterals ==
    {"0.0.0.0", "::", "::1", "127.0.0.1", "10.0.0.5", "169.254.169.254",
     "93.184.216.34"}

RawHosts ==
    { <<>>, <<"localhost">>, <<"LocalHost">>, <<"0.0.0.0">>, <<"::">>, <<"::1">>,
      <<"printer", "local">>, <<"Printer", "LOCAL">>, <<"local">>,
      <<"127.0.0.1">>, <<"10.0.0.5">>, <<"169.254.169.254">>, <<"93.184.216.34">>,
      <<"example", "com">> }

Urls ==
    {[malformed |-> TRUE, host |-> <<>>]}
        \cup {[malformed |-> FALSE, host |-> h] : h \in RawHosts}

LowerLabel(l) ==
    CASE l = "LocalHost" -> "localhost"
      [] l = "Printer" -> "printer"
      [] l = "LOCAL" -> "local"
      [] OTHER -> l

\* host.lower(), label by label.
HostLower(h) == [i \in 1..Len(h) |-> LowerLabel(h[i])]

\* urllib.parse.urlparse(url.strip()).hostname: ValueError on a malformed netloc
\* ("Invalid IPv6 URL"); without a host None, written <<>> (both are falsy); else
\* the host in lower case.
urlparse_hostname(u) ==
    IF u.malformed THEN Raise("ValueError")
    ELSE IF u.host = <<>> THEN Ok(<<>>)
    ELSE Ok(HostLower(u.host))

\* The addresses a resolution can return.  "fe80::1%eth0" is a scoped literal, which
\* ipaddress.ip_address rejects (ValueError) before Python 3.9.
Addrs == {"93.184.216.34", "127.0.0.1", "10.0.0.5", "169.254.169.254", "fe80::1%eth0"}

\* ipaddress: which literals parse, and the flags of those that do.
AddrParses(a) == a # "fe80::1%eth0"
is_loopback(a) == a \in {"127.0.0.1", "::1"}
is_private(a) ==
    a \in {"127.0.0.1", "10.0.0.5", "169.254.169.254", "0.0.0.0", "::", "::1"}
is_link_local(a) == a \in {"169.254.169.254"}

\* An address inside the host or its network, whatever ipaddress makes of it.
Internal(a) == a # "93.184.216.34"

RECURSIVE SeqsUpTo(_, _)
SeqsUpTo(S, n) ==
    IF n = 0 THEN {<<>>}
    ELSE LET shorter == SeqsUpTo(S, n - 1)
         IN  shorter \cup {Append(q, x) : q \in {r \in shorter : Len(r) = n - 1}, x \in S}

NoDns == [exc |-> "none", val |-> <<>>, asked |-> FALSE]

\* socket.getaddrinfo(host, None): an IP literal gives itself; a name gives what
\* the DNS says now (nothing is cached), or fails.
DnsAnswers(host) ==
    IF Len(host) = 1 /\ host[1] \in IpLiterals
    THEN {[exc |-> "none", val |-> <<host[1]>>, asked |-> TRUE]}
    ELSE {[exc |-> e, val |-> <<>>, asked |-> TRUE] :
              e \in {"gaierror", "OSError", "UnicodeError"}}
         \cup {[exc |-> "none", val |-> q, asked |-> TRUE] :
                  q \in SeqsUpTo(Addrs, MaxAddrs) \ {<<>>}}

\* ------------------------------------------------------------------ SSRF guard

BlockedNames == {<<"localhost">>, <<"0.0.0.0">>, <<"::">>, <<"::1">>}

\* host_lower.endswith(".local")
EndsWithDotLocal(host) == Len(host) >= 2 /\ host[Len(host)] = "local"

\* The for loop of _is_safe_url: False at the first address that parses and is
\* loopback, private or link-local; an address that does not parse is skipped.
RECURSIVE AddrLoop(_)
AddrLoop(addrs) ==
    IF addrs = <<>> THEN TRUE
    ELSE IF ~AddrParses(Head(addrs)) THEN AddrLoop(Tail(addrs))
    ELSE IF is_loopback(Head(addrs)) \/ is_private(Head(addrs))
            \/ is_link_local(Head(addrs))
         THEN FALSE
         ELSE AddrLoop(Tail(addrs))

\* The except clause written for socket.gaierror alone.
GuardCaughtGaierrorOnly == {"gaierror"}

\* The except clause of _is_safe_url.
GuardCaught == {"gaierror", "OSError", "ValueError"}

GuardExcept(e) == IF IsInstance(e, GuardCaught) THEN "False" ELSE "raised"

\* Whether the guard gets as far as resolving the host.
GuardResolves(u) ==
    LET parsed == urlparse_hostname(u)
    IN  /\ parsed.exc = "none"
        /\ parsed.val # <<>>
        /\ HostLower(parsed.val) \notin BlockedNames
        /\ ~EndsWithDotLocal(HostLower(parsed.val))

\* _is_safe_url(url), with dns what getaddrinfo does if it is called:
\* "True", "False", or "raised" for an exception that escapes.
_is_safe_url(u, dns) ==
    LET parsed == urlparse_hostname(u)
    IN  IF parsed.exc # "none" THEN GuardExcept(parsed.exc)
        ELSE IF parsed.val = <<>> THEN "False"
        ELSE IF HostLower(parsed.val) \in BlockedNames THEN "False"
        ELSE IF EndsWithDotLocal(HostLower(parsed.val)) THEN "False"
        ELSE IF dns.exc # "none" THEN GuardExcept(dns.exc)
        ELSE IF AddrLoop(dns.val) THEN "True" ELSE "False"

\* ------------------------------------------------------------------ scrape_url

\* Bounds of the pages served: the most elements a body has.
MaxNodes == 2

\* max_chars of scrape_url.
max_chars == 4000

\* len("\n[...truncated]")
TruncationMarkerLen == 15

\* allow_redirects of the requests.get call.
allow_redirects == FALSE

Statuses == {200, 301, 404, 500}

\* An element of a page: its tag and the length of its text once stripped.
Nodes == [tag : {"p", "script"}, len : {0, 3000}]

Responses == [status : Statuses, body : SeqsUpTo(Nodes, MaxNodes)]

NoResponse == [status |-> 0, body |-> <<>>]

\* What scrape_url returns: None, or the extracted text (its length, and whether
\* the truncation marker was appended); "raised" when an exception escapes.
NoneR == [kind |-> "None", len |-> 0, truncated |-> FALSE]
TextR(n, t) == [kind |-> "text", len |-> n, truncated |-> t]
RaisedR == [kind |-> "raised", len |-> 0, truncated |-> FALSE]

NoUrl == [malformed |-> FALSE, host |-> <<>>]

\* response.raise_for_status(): HTTPError for a 4xx or 5xx status, nothing else.
raise_for_status(status) ==
    IF 400 <= status /\ status < 600 THEN Raise("HTTPError") ELSE Ok(<<>>)

\* The tags scrape_url decomposes before reading the text.
RemovedTags == {"script", "style", "nav", "footer", "header"}

\* soup.get_text(separator="\n", strip=True) after the decompose loop: the non-empty
\* stripped strings of the elements left, joined by "\n".  Its length.
RECURSIVE TextLen(_, _)
TextLen(body, seen) ==
    IF body = <<>> THEN 0
    ELSE LET n == Head(body)
             kept == n.tag \notin RemovedTags /\ n.len > 0
         IN  (IF kept THEN n.len + (IF seen THEN 1 ELSE 0) ELSE 0)
                 + TextLen(Tail(body), seen \/ kept)

\* Lines 116-121: the cap on the extracted text.
Truncate(n) ==
    IF n > max_chars THEN TextR(max_chars + TruncationMarkerLen, TRUE)
    ELSE TextR(n, FALSE)

\* except Exception of scrape_url: logged, None returned.
ScrapeExcept(e) == IF IsInstance(e, {"Exception"}) THEN NoneR ELSE RaisedR

\* Lines 106-124 of scrape_url, given the response of the GET.
ScrapeResponse(resp) ==
    IF raise_for_status(resp.status).exc # "none"
    THEN ScrapeExcept(raise_for_status(resp.status).exc)
    ELSE Truncate(TextLen(resp.body, FALSE))

\* The address the HTTP client connects to: the literal itself, or whatever its own
\* resolution of the name gives when it connects.
ConnectAddrs(u) ==
    LET host == urlparse_hostname(u).val
    IN  IF Len(host) = 1 /\ host[1] \in IpLiterals THEN {host[1]} ELSE Addrs

\* The requests one requests.get sends: the GET to the URL, and with redirects
\* followed a second one to the target of a 3xx response.
IsRedirect(status) == 300 <= status /\ status < 400

HttpGet(u, addr, resp, target) ==
    <<[url |-> u, addr |-> addr, guard |-> verdict]>>
        \o (IF allow_redirects /\ IsRedirect(resp.status)
            THEN <<[url |-> u, addr |-> target, guard |-> "none"]>>
            ELSE <<>>)

TextIdle ==
    /\ text = <<>>
    /\ tpc = "off"
    /\ isUrl = FALSE
    /\ sections = <<>>
    /\ index_items = <<>>
    /\ sink = <<>>

\* scrape_url(url) is called.
ScrapeCall ==
    /\ pc = "idle"
    /\ \E u \in Urls : url' = u
    /\ pc' = "guard"
    /\ guardDns' = NoDns
    /\ verdict' = "none"
    /\ requests' = <<>>
    /\ response' = NoResponse
    /\ result' = NoneR
    /\ UNCHANGED <<textVars, sessionVars>>

\* scrape_url without the test of line 95: the guard runs and its answer is dropped.
ScrapeGuardIgnored ==
    /\ pc = "guard"
    /\ \E dns \in (IF GuardResolves(url)
                   THEN DnsAnswers(urlparse_hostname(url).val) ELSE {NoDns}) :
          /\ guardDns' = dns
          /\ verdict' = _is_safe_url(url, dns)
    /\ pc' = "get"
    /\ result' = NoneR
    /\ UNCHANGED <<url, requests, response, textVars, sessionVars>>

\* Line 95: the guard runs, resolving the host if it gets that far; lines 96-97
\* return None when it says no.
ScrapeGuard ==
    /\ pc = "guard"
    /\ \E dns \in (IF GuardResolves(url)
                   THEN DnsAnswers(urlparse_hostname(url).val) ELSE {NoDns}) :
          /\ guardDns' = dns
          /\ verdict' = _is_safe_url(url, dns)
    /\ pc' = IF verdict' = "True" THEN "get" ELSE "done"
    /\ result' = IF verdict' = "raised" THEN RaisedR ELSE NoneR
    /\ UNCHANGED <<url, requests, response, textVars, sessionVars>>

\* Lines 103-105: the GET.  It fails before anything is sent, or is sent and times
\* out, or is answered.
ScrapeGet ==
    /\ pc = "get"
    /\ \/ /\ requests' = requests
          /\ response' = response
          /\ result' = ScrapeExcept("ConnectionError")
          /\ pc' = "done"
       \/ \E addr \in ConnectAddrs(url) :
             /\ requests' = requests \o HttpGet(url, addr, NoResponse, addr)
             /\ response' = response
             /\ result' = ScrapeExcept("Timeout")
             /\ pc' = "done"
       \/ \E addr \in ConnectAddrs(url), resp \in Responses, target \in Addrs :
             /\ requests' = requests \o HttpGet(url, addr, resp, target)
             /\ response' = resp
             /\ result' = result
             /\ pc' = "parse"
    /\ UNCHANGED <<url, guardDns, verdict, textVars, sessionVars>>

\* Lines 106-124: the status check, the extraction, the cap, the return.
ScrapeParse ==
    /\ pc = "parse"
    /\ result' = ScrapeResponse(response)
    /\ pc' = "done"
    /\ UNCHANGED <<url, guardDns, verdict, requests, response, textVars, sessionVars>>

\* The caller has the result; the next call may come.
ScrapeReturn ==
    /\ pc = "done"
    /\ pc' = "idle"
    /\ UNCHANGED <<url, guardDns, verdict, requests, response, result, textVars,
                   sessionVars>>

SessionIdle ==
    /\ started = FALSE
    /\ session = <<>>
    /\ api_key = ""
    /\ outcome = "off"
    /\ analyze = "off"

InitScrape ==
    /\ pc = "idle"
    /\ url = NoUrl
    /\ guardDns = NoDns
    /\ verdict = "none"
    /\ requests = <<>>
    /\ response = NoResponse
    /\ result = NoneR
    /\ TextIdle
    /\ SessionIdle

NextScrape == ScrapeCall \/ ScrapeGuard \/ ScrapeGet \/ ScrapeParse \/ ScrapeReturn

SpecScrape == InitScrape /\ [][NextScrape]_vars

\* ------------------------------------------------------------------ properties: guard, extractor

\* The three conditions of the guard's contract, stated on the URL and on the
\* answer of the resolution.
HostPresent(u) == ~u.malformed /\ u.host # <<>>

HostNameAllowed(u) ==
    /\ HostLower(u.host) \notin {<<"localhost">>, <<"0.0.0.0">>, <<"::">>, <<"::1">>}
    /\ ~(Len(u.host) >= 2 /\ LowerLabel(u.host[Len(u.host)]) = "local")

ResolvedAddrsAllowed(dns) ==
    /\ dns.asked
    /\ dns.exc = "none"
    /\ \A i \in DOMAIN dns.val :
          AddrParses(dns.val[i]) =>
              ~(is_loopback(dns.val[i]) \/ is_private(dns.val[i])
                    \/ is_link_local(dns.val[i]))

\* C1: whenever the guard has run, it returned True or False (it raised nothing), and
\* it returned True exactly when the URL has a hostname, the lowercased hostname is
\* not localhost, 0.0.0.0, :: or ::1 and does not end with .local, and the resolution
\* succeeded with every address that parses being neither loopback, private nor
\* link-local; a parse failure, a DNS failure or an I/O error gives False.
C1_GuardFailsClosed ==
    verdict # "none" =>
        /\ verdict \in {"True", "False"}
        /\ verdict = "True" <=>
              (HostPresent(url) /\ HostNameAllowed(url) /\ ResolvedAddrsAllowed(guardDns))

\* The guard said True although the answer held an address it could not parse.
C1_Witness ==
    /\ verdict = "True"
    /\ \E i \in DOMAIN guardDns.val : ~AddrParses(guardDns.val[i])

\* C2: in every call of scrape_url at most one GET is sent, each GET sent is for the
\* URL of the call and was sent after the guard returned True for it, and a call
\* whose guard returned False ends with None and no request at all.
C2_GetOnlyAfterGuard ==
    /\ Len(requests) <= 1
    /\ \A i \in DOMAIN requests :
          /\ requests[i].guard = "True"
          /\ requests[i].url = url
          /\ verdict = "True"
    /\ (verdict = "False" => pc \in {"done", "idle"} /\ result = NoneR /\ requests = <<>>)

\* A call that passed the guard and sent its one GET.
C2_Witness == pc = "done" /\ verdict = "True" /\ Len(requests) = 1

\* C3: no GET is ever sent to a loopback, private or link-local address.
C3_NeverFetchesInternal ==
    \A i \in DOMAIN requests : ~Internal(requests[i].addr)

\* C5: a call that received a response whose status is not 2xx returns None.
C5_NonSuccessIsFailure ==
    (pc = "done" /\ response # NoResponse /\ ~(200 <= response.status /\ response.status < 300))
        => result = NoneR

\* ------------------------------------------------------------------ URL classifier

\* looks_like_url(text): re.match(r"https?://", text.strip()).  re.match anchors at
\* the start; the call passes no flags, so the letters are compared as written.
looks_like_url(t) ==
    \/ StartsWith(Strip(t), <<"h", "t", "t", "p", ":", "/", "/">>)
    \/ StartsWith(Strip(t), <<"h", "t", "t", "p", "s", ":", "/", "/">>)

\* ------------------------------------------------------------------ section splitter

\* re.split of a literal pattern: the pieces between its non-overlapping matches,
\* found left to right.  cur is the piece being read.
RECURSIVE ReSplit(_, _, _)
ReSplit(s, sep, cur) ==
    IF s = <<>> THEN <<cur>>
    ELSE IF StartsWith(s, sep)
         THEN <<cur>> \o ReSplit(SubSeq(s, Len(sep) + 1, Len(s)), sep, <<>>)
         ELSE ReSplit(Tail(s), sep, Append(cur, Head(s)))

H2 == <<"#", "#", " ">>

\* The loop appending every later part as it is, without its "## ".
RECURSIVE SectionLoopBareParts(_, _)
SectionLoopBareParts(parts, i) ==
    IF parts = <<>> THEN <<>>
    ELSE LET part == Strip(Head(parts))
             rest == SectionLoopBareParts(Tail(parts), i + 1)
         IN  IF part = <<>> THEN rest
             ELSE IF i = 0
                  THEN <<IF StartsWith(part, H2) THEN part ELSE H2 \o part>> \o rest
                  ELSE <<part>> \o rest

\* The for loop of parse_analysis_sections over enumerate(parts), from index i.
RECURSIVE SectionLoop(_, _)
SectionLoop(parts, i) ==
    IF parts = <<>> THEN <<>>
    ELSE LET part == Strip(Head(parts))
             rest == SectionLoop(Tail(parts), i + 1)
         IN  IF part = <<>> THEN rest
             ELSE IF i = 0
                  THEN <<IF StartsWith(part, H2) THEN part ELSE H2 \o part>> \o rest
                  ELSE <<H2 \o part>> \o rest

\* parse_analysis_sections(full_markdown)
parse_analysis_sections(full_markdown) ==
    LET t == Strip(full_markdown)
        found == SectionLoop(ReSplit(t, <<"\n", "#", "#", " ">>, <<>>), 0)
    IN  IF t = <<>> THEN <<>>
        ELSE IF found # <<>> THEN found ELSE <<t>>

Digits == <<"0", "1", "2", "3", "4", "5", "6", "7", "8", "9">>

\* str(n) for n >= 0, as the f-strings format it.
RECURSIVE Decimal(_)
Decimal(n) ==
    IF n < 10 THEN <<Digits[n + 1]>> ELSE Decimal(n \div 10) \o <<Digits[(n % 10) + 1]>>

\* [a-z0-9]
LowerAlnum ==
    {"a", "b", "c", "d", "e", "f", "g", "h", "i", "j", "k", "l", "m", "n", "o", "p",
     "q", "r", "s", "t", "u", "v", "w", "x", "y", "z",
     "0", "1", "2", "3", "4", "5", "6", "7", "8", "9"}

\* The characters a markup "character" stands for.
TagChars ==
    [c \in {"<script>", "</script>", "<b>", "</b>", "<h2>", "</h2>", "<p>", "</p>"} |->
        CASE c = "<script>" -> <<"<", "s", "c", "r", "i", "p", "t", ">">> []
          c = "</script>" -> <<"<", "/", "s", "c", "r", "i", "p", "t", ">">> []
          c = "<b>" -> <<"<", "b", ">">> []
          c = "</b>" -> <<"<", "/", "b", ">">> []
          c = "<h2>" -> <<"<", "h", "2", ">">> []
          c = "</h2>" -> <<"<", "/", "h", "2", ">">> []
          c = "<p>" -> <<"<", "p", ">">> []
          c = "</p>" -> <<"<", "/", "p", ">">>]

\* The string character by character, its markup spelled out.
RECURSIVE Explode(_)
Explode(s) ==
    IF s = <<>> THEN <<>>
    ELSE (IF Head(s) \in DOMAIN TagChars THEN TagChars[Head(s)] ELSE <<Head(s)>>)
            \o Explode(Tail(s))

\* re.sub(r"[^a-z0-9]+", "-", s): each run of other characters becomes one hyphen.
RECURSIVE Hyphenate(_, _)
Hyphenate(s, inRun) ==
    IF s = <<>> THEN <<>>
    ELSE IF Head(s) \in LowerAlnum THEN <<Head(s)>> \o Hyphenate(Tail(s), FALSE)
    ELSE IF inRun THEN Hyphenate(Tail(s), TRUE)
    ELSE <<"-">> \o Hyphenate(Tail(s), TRUE)

\* str.strip("-")
RECURSIVE StripHyphens(_)
StripHyphens(s) ==
    IF s # <<>> /\ Head(s) = "-" THEN StripHyphens(Tail(s))
    ELSE IF s # <<>> /\ s[Len(s)] = "-" THEN StripHyphens(SubSeq(s, 1, Len(s) - 1))
    ELSE s

\* s.split("\n")[0]
RECURSIVE FirstLine(_)
FirstLine(s) ==
    IF s = <<>> \/ Head(s) = "\n" THEN <<>> ELSE <<Head(s)>> \o FirstLine(Tail(s))

\* _section_title_and_slug(section_text, index)
_section_title_and_slug(section_text, index) ==
    LET first_line == IF section_text # <<>> THEN FirstLine(Strip(section_text)) ELSE <<>>
        title == IF StartsWith(first_line, H2)
                 THEN Strip(SubSeq(first_line, 4, Len(first_line)))
                 ELSE <<"S", "e", "c", "t", "i", "o", "n", " ">> \o Decimal(index + 1)
        slugged == StripHyphens(Hyphenate(Lower(Explode(title)), FALSE))
        slug == IF slugged # <<>> THEN slugged ELSE <<"s", "e", "c", "t", "i", "o", "n", "-">> \o Decimal(index)
    IN  [title |-> title, slug |-> slug]

\* ------------------------------------------------------------------ sanitizer

ALLOWED_TAGS ==
    {"p", "br", "strong", "em", "b", "i", "u", "code", "pre",
     "h1", "h2", "h3", "h4", "ul", "ol", "li", "a", "hr",
     "table", "thead", "tbody", "tr", "td", "th", "blockquote"}

\* The markup "characters" of the alphabet and the tag each one opens or closes.
TagName ==
    [c \in {"<script>", "</script>", "<b>", "</b>", "<h2>", "</h2>", "<p>", "</p>"} |->
        CASE c \in {"<script>", "</script>"} -> "script"
          [] c \in {"<b>", "</b>"} -> "b"
          [] c \in {"<h2>", "</h2>"} -> "h2"
          [] OTHER -> "p"]

IsTag(c) == c \in DOMAIN TagName

\* md_lib.markdown, line by line: a "## " line becomes an h2 element, a blank line
\* nothing, any other line a paragraph; markup typed in the text passes through.
RECURSIVE MarkdownLines(_)
MarkdownLines(lines) ==
    IF lines = <<>> THEN <<>>
    ELSE LET line == Strip(Head(lines))
             html == IF line = <<>> THEN <<>>
                     ELSE IF StartsWith(line, H2)
                          THEN <<"<h2>">> \o Strip(SubSeq(line, 4, Len(line))) \o <<"</h2>">>
                          ELSE <<"<p>">> \o line \o <<"</p>">>
         IN  html \o MarkdownLines(Tail(lines))

\* bleach.clean(html, tags=ALLOWED_TAGS, attributes=ALLOWED_ATTRS, strip=True): a tag
\* outside the allowlist is removed, the text around it stays.
RECURSIVE BleachClean(_)
BleachClean(html) ==
    IF html = <<>> THEN <<>>
    ELSE IF IsTag(Head(html)) /\ TagName[Head(html)] \notin ALLOWED_TAGS
         THEN BleachClean(Tail(html))
         ELSE <<Head(html)>> \o BleachClean(Tail(html))

\* markdown_to_safe_html(markdown_text)
markdown_to_safe_html(markdown_text) ==
    BleachClean(MarkdownLines(ReSplit(markdown_text, <<"\n">>, <<>>)))

\* ------------------------------------------------------------------ rendering

\* A piece of an HTML fragment: text the program wrote itself, or text that comes
\* from the model's response, which is sanitized only if markdown_to_safe_html
\* produced it.
Literal(t) == [model |-> FALSE, sanitized |-> FALSE, what |-> "literal", text |-> t]
Unsanitized(w, t) == [model |-> TRUE, sanitized |-> FALSE, what |-> w, text |-> t]
Sanitized(t) == [model |-> TRUE, sanitized |-> TRUE, what |-> "safe_html", text |-> t]

\* The anchor built from the slug alone.
AnchorWithoutIndex(slug, i) == <<"s", "e", "c", "t", "i", "o", "n", "-">> \o slug

\* f"section-{slug}-{i}": the anchor of a section, in the index link and on the card.
Anchor(slug, i) == <<"s", "e", "c", "t", "i", "o", "n", "-">> \o slug \o <<"-">> \o Decimal(i)

\* Line 454: (title, slug, i) for each section; i counts from 0.
IndexItems(secs) ==
    [k \in 1..Len(secs) |->
        [title |-> _section_title_and_slug(secs[k], k - 1).title,
         slug |-> _section_title_and_slug(secs[k], k - 1).slug,
         i |-> k - 1]]

\* Lines 456-458: one link per item, joined by " · ".
RECURSIVE IndexLinks(_, _)
IndexLinks(items, first) ==
    IF items = <<>> THEN <<>>
    ELSE (IF first THEN <<>> ELSE <<Literal(<<" ", ".", " ">>)>>)
            \o <<Literal(<<"<a href=#">>),
                 Unsanitized("anchor", Anchor(Head(items).slug, Head(items).i)),
                 Literal(<<">">>),
                 Unsanitized("title", Head(items).title),
                 Literal(<<"</a>">>)>>
            \o IndexLinks(Tail(items), FALSE)

\* Lines 459-462: the "Jump to" index, handed over with unsafe_allow_html=True.
IndexFragment(items) ==
    [kind |-> "index",
     id |-> <<>>,
     pieces |-> <<Literal(<<"<div class=analysis-index>", "Jump to:">>)>>
                   \o IndexLinks(items, TRUE) \o <<Literal(<<"</div>">>)>>]

\* Lines 464-470: the card of section number k (i = k - 1), handed over with
\* unsafe_allow_html=True.
CardFragment(secs, k) ==
    LET slug == _section_title_and_slug(secs[k], k - 1).slug
    IN  [kind |-> "card",
         id |-> Anchor(slug, k - 1),
         pieces |-> <<Literal(<<"<div id=">>),
                      Unsanitized("anchor", Anchor(slug, k - 1)),
                      Literal(<<" class=analysis-section-card>">>),
                      Sanitized(markdown_to_safe_html(secs[k])),
                      Literal(<<"</div>">>)>>]

\* Lines 452-470: everything the display block hands to the rendering surface as
\* raw HTML for the stored result.
RenderFragments(secs) ==
    <<IndexFragment(IndexItems(secs))>> \o [k \in 1..Len(secs) |-> CardFragment(secs, k)]

\* ------------------------------------------------------------------ text inputs

\* The most pieces a typed input is made of, and the most lines a response has.
MaxUrlTokens == 3
MaxLines == 3

\* What the user types is a run of these pieces.
UrlTokens ==
    { <<"h", "t", "t", "p">>,
      <<"h", "t", "t", "p", "s">>,
      <<"H", "T", "T", "P">>,
      <<"H", "t", "t", "p", "s">>,
      <<":", "/", "/">>,
      <<":", "/">>,
      <<" ">>,
      <<"\n">>,
      <<"x">> }

UrlTexts == {Concat(q) : q \in SeqsUpTo(UrlTokens, MaxUrlTokens)}

\* The lines a response of the model is made of.
ResponseLines ==
    { <<>>,
      <<" ">>,
      <<"a">>,
      <<"#", "#", " ", "a">>,
      <<"#", "#", " ", "a", " ", "1">>,
      <<"#", "#", " ">>,
      <<"#", "#", " ", " ", "B", "<script>">>,
      <<"#", "#", "#", " ", "a">>,
      <<" ", "#", "#", " ", "a">>,
      <<"#", "#">>,
      <<"#", "#", " ", "1">> }

\* "\n".join(lines)
RECURSIVE JoinLines(_)
JoinLines(lines) ==
    IF lines = <<>> THEN <<>>
    ELSE IF Len(lines) = 1 THEN Head(lines)
    ELSE Head(lines) \o <<"\n">> \o JoinLines(Tail(lines))

ResponseTexts == {JoinLines(q) : q \in SeqsUpTo(ResponseLines, MaxLines)}

ScrapeIdle ==
    /\ pc = "off"
    /\ url = NoUrl
    /\ guardDns = NoDns
    /\ verdict = "none"
    /\ requests = <<>>
    /\ response = NoResponse
    /\ result = NoneR

\* ---- the URL classifier applied to a typed input

InitUrl ==
    /\ text \in UrlTexts
    /\ tpc = "typed"
    /\ isUrl = FALSE
    /\ sections = <<>>
    /\ index_items = <<>>
    /\ sink = <<>>
    /\ ScrapeIdle
    /\ SessionIdle

\* Line 232 (and line 202): the input is classified.
Classify ==
    /\ tpc = "typed"
    /\ isUrl' = looks_like_url(text)
    /\ tpc' = "classified"
    /\ UNCHANGED <<text, sections, index_items, sink, scrapeVars, sessionVars>>

NextUrl == Classify

SpecUrl == InitUrl /\ [][NextUrl]_vars

\* ---- the display block applied to a stored result

InitRender ==
    /\ text \in ResponseTexts
    /\ tpc = "stored"
    /\ isUrl = FALSE
    /\ sections = <<>>
    /\ index_items = <<>>
    /\ sink = <<>>
    /\ ScrapeIdle
    /\ SessionIdle

\* Lines 452-470: the stored result is split, indexed and rendered.
Render ==
    /\ tpc = "stored"
    /\ sections' = parse_analysis_sections(text)
    /\ index_items' = IndexItems(sections')
    /\ sink' = RenderFragments(sections')
    /\ tpc' = "rendered"
    /\ UNCHANGED <<text, isUrl, scrapeVars, sessionVars>>

NextRender == Render

SpecRender == InitRender /\ [][NextRender]_vars

\* ------------------------------------------------------------------ properties: classifier, splitter, renderer

\* C6: the classifier says yes exactly when the stripped input begins with http:// or
\* https://, letters compared without regard to case.
C6_ClassifierIgnoresCase ==
    tpc = "classified" =>
        (isUrl <=> (\/ StartsWith(Lower(Strip(text)), <<"h", "t", "t", "p", ":", "/", "/">>)
                    \/ StartsWith(Lower(Strip(text)), <<"h", "t", "t", "p", "s", ":", "/", "/">>)))

\* The lines of a text, and those that are level-2 headers ("## ...").
LinesOf(t) == ReSplit(t, <<"\n">>, <<>>)
IsHeaderLine(l) == StartsWith(l, H2)
HeaderLines(t) == SelectSeq(LinesOf(t), IsHeaderLine)
HeaderText(l) == Strip(SubSeq(l, 4, Len(l)))

\* One section per header, in the headers' order: section k begins with "## ", holds
\* no other header line, and its title is the text of header k.
SectionsFollowHeaders(hs) ==
    /\ Len(sections) = Len(hs)
    /\ \A k \in 1..Len(sections) :
          /\ StartsWith(sections[k], H2)
          /\ Len(HeaderLines(sections[k])) = 1
          /\ index_items[k].title = HeaderText(hs[k])

\* Every level-2 header of the text has a title.
HeadersTitled(t) ==
    \A k \in 1..Len(HeaderLines(t)) : HeaderText(HeaderLines(t)[k]) # <<>>

\* C7 as claimed, on the texts whose level-2 headers all have a title: for every such
\* response text with a level-2 header, the splitter returns one section per header,
\* in order, each beginning with its header line, and the title of each is its
\* header's text.
C7_OneSectionPerHeader ==
    (tpc = "rendered" /\ HeaderLines(text) # <<>> /\ HeadersTitled(text)) =>
        SectionsFollowHeaders(HeaderLines(text))

\* The stripped text begins with a level-2 header and every level-2 header in it has
\* a title.
HeadersOnly(t) == StartsWith(Strip(t), H2) /\ HeadersTitled(Strip(t))

\* C7 amended: for every response text that, once stripped, begins with a level-2
\* header and whose level-2 headers all have a non-blank title, the splitter returns
\* one section per header, in order, each beginning with "## " and holding that one
\* header, and the title of each is its header's text.
C7_OneSectionPerHeaderNoPreamble ==
    (tpc = "rendered" /\ HeadersOnly(text)) =>
        SectionsFollowHeaders(HeaderLines(Strip(text)))

\* A response of two titled headers was split.
C7_Witness ==
    /\ tpc = "rendered"
    /\ HeadersOnly(text)
    /\ Len(HeaderLines(Strip(text))) >= 2
    /\ Len(sections) >= 2

\* C8, on the texts that are not blank: a response text without any level-2 header
\* comes back as one section, the text itself, unaltered.
C8_NoHeaderWholeTextAsIs ==
    (tpc = "rendered" /\ HeaderLines(text) = <<>> /\ Strip(text) # <<>>) =>
        sections = <<text>>

\* C9: the anchors of the rendered sections are pairwise distinct.
C9_AnchorsDistinct ==
    tpc = "rendered" =>
        \A j, k \in 2..Len(sink) : j # k => sink[j].id # sink[k].id

\* Two sections of one response have the same slug, and it ends in a digit.
C9_Witness ==
    /\ tpc = "rendered"
    /\ \E j, k \in 1..Len(index_items) :
          /\ j # k
          /\ index_items[j].slug = index_items[k].slug
          /\ index_items[j].slug[Len(index_items[j].slug)] \in {"0", "1"}

HasDisallowedMarkup(t) ==
    \E i \in 1..Len(t) : IsTag(t[i]) /\ TagName[t[i]] \notin ALLOWED_TAGS

\* C4: in every fragment handed over as raw HTML, index and cards alike, no text of
\* the model's response carries markup past the sanitizer: a piece that comes from
\* the response either went through markdown_to_safe_html or has no markup outside
\* the allowlist in it.
C4_SanitizedBeforeRender ==
    \A f \in 1..Len(sink) :
        \A q \in 1..Len(sink[f].pieces) :
            sink[f].pieces[q].model =>
                \/ sink[f].pieces[q].sanitized
                \/ ~HasDisallowedMarkup(sink[f].pieces[q].text)

\* ------------------------------------------------------------------ session (main)

DEFAULT_PRODUCT == <<"E", "x", "a", "m", "p", "l", "e", " ", "P", "r", "o", "d", "u", "c", "t", " ", "B", "r", "e", "a", "k", "d", "o", "w", "n">>

EXAMPLE_PRODUCTS ==
    << <<"F", "i", "g", "m", "a">>,
       <<"N", "o", "t", "i", "o", "n">>,
       <<"D", "u", "o", "l", "i", "n", "g", "o">>,
       <<"S", "p", "o", "t", "i", "f", "y">>,
       <<"C", "h", "a", "t", "G", "P", "T">>,
       <<"L", "i", "n", "e", "a", "r">> >>

\* The example buttons the user gets to click: the first MaxExamples of them.
MaxExamples == 2

\* What the user may type into the product field.
TypedInputs == { <<>>, <<"h", "t", "t", "p", "s", ":", "/", "/", "x">> }

\* What the user may type into the key field.
TypedKeys == {"", "key"}

\* The content of default_product_breakdown.md, stripped: the file may be missing
\* or empty.
DefaultFiles == { <<>>, <<"#", "#", " ", "a", "\n", "a">> }

\* The texts the generation service may return.
ResultTexts == { <<"a">>, <<"#", "#", " ", " ", "B", "<script>">> }

\* ------------------------------------------------------------------ generation

\* The finish reasons a candidate may carry; FINISH_REASON_UNSPECIFIED is the
\* enum's zero, which Python's truth test takes as false.
FinishReasons == {"FINISH_REASON_UNSPECIFIED", "MAX_TOKENS", "SAFETY"}

\* str(finish_reason)
FinishReasonStr(r) ==
    CASE r = "SAFETY" ->
            <<"F", "i", "n", "i", "s", "h", "R", "e", "a", "s", "o", "n", ".", "S",
              "A", "F", "E", "T", "Y">>
      [] r = "MAX_TOKENS" ->
            <<"F", "i", "n", "i", "s", "h", "R", "e", "a", "s", "o", "n", ".", "M",
              "A", "X", "_", "T", "O", "K", "E", "N", "S">>
      [] OTHER ->
            <<"F", "i", "n", "i", "s", "h", "R", "e", "a", "s", "o", "n", ".", "F",
              "I", "N", "I", "S", "H", "_", "R", "E", "A", "S", "O", "N", "_", "U",
              "N", "S", "P", "E", "C", "I", "F", "I", "E", "D">>

\* str(e) of the exceptions model.generate_content raises: the status code, the
\* message of the service and the details it attached.
PermissionDeniedText ==
    <<"4", "0", "3", " ", "P", "e", "r", "m", "i", "s", "s", "i", "o", "n", " ", "d",
      "e", "n", "i", "e", "d">>

ApiKeyInvalidText ==
    <<"4", "0", "0", " ", "A", "P", "I", " ", "k", "e", "y", " ", "n", "o", "t", " ",
      "v", "a", "l", "i", "d", ".", " ", "P", "l", "e", "a", "s", "e", " ", "p", "a",
      "s", "s", " ", "a", " ", "v", "a", "l", "i", "d", " ", "A", "P", "I", " ", "k",
      "e", "y", ".", " ", "[", "r", "e", "a", "s", "o", "n", ":", " ", "\"", "A", "P",
      "I", "_", "K", "E", "Y", "_", "I", "N", "V", "A", "L", "I", "D", "\"", "]">>

ResourceExhaustedText ==
    <<"4", "2", "9", " ", "R", "e", "s", "o", "u", "r", "c", "e", " ", "h", "a", "s",
      " ", "b", "e", "e", "n", " ", "e", "x", "h", "a", "u", "s", "t", "e", "d", " ",
      "(", "e", ".", "g", ".", " ", "c", "h", "e", "c", "k", " ", "q", "u", "o", "t",
      "a", ")", ".">>

QuotaRetryDelayText ==
    <<"4", "2", "9", " ", "Y", "o", "u", " ", "e", "x", "c", "e", "e", "d", "e", "d",
      " ", "y", "o", "u", "r", " ", "c", "u", "r", "r", "e", "n", "t", " ", "q", "u",
      "o", "t", "a", ".", " ", "[", "r", "e", "t", "r", "y", "_", "d", "e", "l", "a",
      "y", " ", "{", " ", "s", "e", "c", "o", "n", "d", "s", ":", " ", "4", "0", " ",
      "n", "a", "n", "o", "s", ":", " ", "4", "0", "3", "1", "2", "5", "0", "0", "0",
      " ", "}", "]">>

NotFoundText ==
    <<"4", "0", "4", " ", "m", "o", "d", "e", "l", "s", "/", "g", "e", "m", "i", "n",
      "i", "-", "1", ".", "5", "-", "f", "l", "a", "s", "h", " ", "i", "s", " ", "n",
      "o", "t", " ", "f", "o", "u", "n", "d">>

InternalErrorText ==
    <<"5", "0", "0", " ", "I", "n", "t", "e", "r", "n", "a", "l", " ", "e", "r", "r",
      "o", "r">>

\* A reply of the service to generate_content: a response whose text accessor gives
\* a text; a response without text (its candidates, each by its finish reason, and
\* the block reason of its prompt feedback: a prompt that is blocked has no
\* candidate at all); or an exception, by its class, the status the service gave
\* and its str().
NoReply ==
    [kind |-> "none", text |-> <<>>, candidates |-> <<>>, block_reason |-> "none",
     class |-> "none", status |-> "none", msg |-> <<>>]

TextReply(t) == [NoReply EXCEPT !.kind = "text", !.text = t]

NoTextReply(c, b) ==
    [NoReply EXCEPT !.kind = "notext", !.candidates = c, !.block_reason = b]

RaisedReply(c, st, m) ==
    [NoReply EXCEPT !.kind = "raised", !.class = c, !.status = st, !.msg = m]

ServiceReplies ==
    {TextReply(r) : r \in ResultTexts}
        \cup {NoTextReply(<<r>>, "none") : r \in FinishReasons}
        \cup {NoTextReply(<<>>, b) : b \in {"none", "SAFETY"}}
        \cup {RaisedReply("PermissionDenied", "PERMISSION_DENIED", PermissionDeniedText),
              RaisedReply("InvalidArgument", "API_KEY_INVALID", ApiKeyInvalidText),
              RaisedReply("ResourceExhausted", "RESOURCE_EXHAUSTED",
                          ResourceExhaustedText),
              RaisedReply("ResourceExhausted", "RESOURCE_EXHAUSTED",
                          QuotaRetryDelayText),
              RaisedReply("NotFound", "NOT_FOUND", NotFoundText),
              RaisedReply("InternalServerError", "INTERNAL", InternalErrorText)}

\* Lines 266-269: the message of the ValueError for a blocked response.
BlockedMessage ==
    <<"T", "h", "e", " ", "m", "o", "d", "e", "l", " ", "d", "i", "d", "n", "'", "t",
      " ", "r", "e", "t", "u", "r", "n", " ", "t", "e", "x", "t", " ", "(", "r", "e",
      "s", "p", "o", "n", "s", "e", " ", "w", "a", "s", " ", "b", "l", "o", "c", "k",
      "e", "d", " ", "b", "y", " ", "s", "a", "f", "e", "t", "y", " ", "f", "i", "l",
      "t", "e", "r", "s", ")", ".", " ", "T", "r", "y", " ", "a", " ", "d", "i", "f",
      "f", "e", "r", "e", "n", "t", " ", "p", "r", "o", "d", "u", "c", "t", " ", "o",
      "r", " ", "w", "o", "r", "d", "i", "n", "g", ".">>

\* Lines 270-272: the message of the ValueError for any other response without text.
NoTextMessage ==
    <<"T", "h", "e", " ", "m", "o", "d", "e", "l", " ", "d", "i", "d", "n", "'", "t",
      " ", "r", "e", "t", "u", "r", "n", " ", "t", "e", "x", "t", ".", " ", "T", "r",
      "y", " ", "a", " ", "d", "i", "f", "f", "e", "r", "e", "n", "t", " ", "p", "r",
      "o", "d", "u", "c", "t", " ", "o", "r", " ", "t", "r", "y", " ", "a", "g", "a",
      "i", "n", ".">>

\* Lines 263-265: whether the response is taken as blocked.
TakenAsBlocked(reply) ==
    /\ reply.candidates # <<>>
    /\ reply.candidates[1] # "FINISH_REASON_UNSPECIFIED"
    /\ \/ Contains(Upper(FinishReasonStr(reply.candidates[1])),
                   <<"S", "A", "F", "E", "T", "Y">>)
       \/ Contains(Upper(FinishReasonStr(reply.candidates[1])),
                   <<"B", "L", "O", "C", "K">>)

\* Lines 252-272 of analyze_product, given the reply to its one generate_content
\* call: the text is returned, a response without text becomes a ValueError, and an
\* exception of the call goes on to the caller.
GenOutcome(reply) ==
    CASE reply.kind = "text" ->
            [ok |-> TRUE, text |-> reply.text, error |-> "none", msg |-> <<>>,
             reply |-> reply]
      [] reply.kind = "notext" ->
            [ok |-> FALSE, text |-> <<>>, error |-> "ValueError",
             msg |-> IF TakenAsBlocked(reply) THEN BlockedMessage ELSE NoTextMessage,
             reply |-> reply]
      [] OTHER ->
            [ok |-> FALSE, text |-> <<>>, error |-> reply.class, msg |-> reply.msg,
             reply |-> reply]

\* What analyze_product does when called: it returns a text, or raises.
GenOutcomes == {GenOutcome(r) : r \in ServiceReplies}

\* The fixed messages of main's except clause.
InvalidKeyMessage ==
    "Invalid API key. Please check your Google AI API key and try again. [Get a free key here.](https://ai.google.dev)"

RateLimitMessage ==
    "Rate limit or quota hit. The free tier has limits per minute. Wait 60 seconds and try again. If you only made one request, Google sometimes returns this on cold start - retry once."

SomethingWentWrong == "Something went wrong: "

NoKeyMessage ==
    "Enter your Google AI API key above to run an analysis. [Get a free key here.](https://ai.google.dev)"

\* A call of st.error or st.code: the fixed text, and the text interpolated after it.
UiCall(fn, msg, detail) == [fn |-> fn, msg |-> msg, detail |-> detail]

\* Lines 391-406: what the except clause shows for error_msg = str(e).
ErrorUi(error_msg) ==
    IF \/ Contains(Upper(error_msg), <<"A", "P", "I", "_", "K", "E", "Y">>)
       \/ Contains(error_msg, <<"4", "0", "3">>)
    THEN <<UiCall("error", InvalidKeyMessage, <<>>)>>
    ELSE IF \/ Contains(error_msg, <<"4", "2", "9">>)
            \/ Contains(Upper(error_msg),
                        <<"R", "E", "S", "O", "U", "R", "C", "E", "_",
                          "E", "X", "H", "A", "U", "S", "T", "E", "D">>)
            \/ Contains(Lower(error_msg), <<"q", "u", "o", "t", "a">>)
         THEN <<UiCall("error", RateLimitMessage, <<>>), UiCall("code", "", error_msg)>>
         ELSE <<UiCall("error", SomethingWentWrong, error_msg)>>

\* What the user did to cause the script run: nothing (the first load, a rerun),
\* an edit of the product field, a click on Analyze, a click on an example, an
\* entry in the key field.
Events ==
    {[kind |-> "none", arg |-> <<>>], [kind |-> "analyze", arg |-> <<>>]}
        \cup {[kind |-> "edit", arg |-> t] : t \in TypedInputs}
        \cup {[kind |-> "example", arg |-> EXAMPLE_PRODUCTS[k]] :
                 k \in 1..MaxExamples}

\* st.session_state is a dictionary: a function from the keys it holds.
Has(ss, k) == k \in DOMAIN ss
Put(ss, k, v) == [x \in DOMAIN ss \cup {k} |-> IF x = k THEN v ELSE ss[x]]
Pop(ss, k) == [x \in DOMAIN ss \ {k} |-> ss[x]]

\* Lines 325-339: the widget's value is in the state; a pending example replaces it;
\* without any value the default product is shown.
InputStep(ss, ev) ==
    LET typed == IF ev.kind = "edit" THEN Put(ss, "product_input", ev.arg) ELSE ss
        moved == IF Has(typed, "pending_product")
                 THEN Put(Pop(typed, "pending_product"), "product_input",
                          typed["pending_product"])
                 ELSE typed
    IN  IF Has(moved, "product_input") THEN moved
        ELSE Put(moved, "product_input", DEFAULT_PRODUCT)

\* Lines 346-352: a clicked example is stored as pending.
ExampleStep(ss, ev) ==
    IF ev.kind = "example" THEN Put(ss, "pending_product", ev.arg) ELSE ss

\* Lines 343 and 352.
AnalyzeClicked(ev) == ev.kind \in {"analyze", "example"}

\* Line 355: st.session_state.get("pending_product") or product_input.
ProductToAnalyze(ss) ==
    IF Has(ss, "pending_product") /\ ss["pending_product"] # <<>>
    THEN ss["pending_product"]
    ELSE ss["product_input"]

\* Lines 358-362: the condition of the default breakdown.
DefaultDue(ss) ==
    /\ ~Has(ss, "last_result")
    /\ ss["product_input"] = DEFAULT_PRODUCT
    /\ ~Has(ss, "default_breakdown_loaded")

\* Lines 363-372: the flag is set, and a non-empty file becomes the stored result.
DefaultStep(ss, file) ==
    IF ~DefaultDue(ss) THEN ss
    ELSE LET flagged == Put(ss, "default_breakdown_loaded", <<"True">>)
         IN  IF file # <<>>
             THEN Put(Put(flagged, "last_result", file), "last_product", DEFAULT_PRODUCT)
             ELSE flagged

\* Line 378 and line 379: whether an analysis is asked for, and whether it is run.
AnalysisAsked(ss, ev) == AnalyzeClicked(ev) /\ ProductToAnalyze(ss) # <<>>

\* The product stored before analyze_product is called, the result after it.
AnalysisStepProductFirst(ss, gen) ==
    IF gen.ok
    THEN Put(Put(ss, "last_result", gen.text), "last_product", ProductToAnalyze(ss))
    ELSE Put(ss, "last_product", ProductToAnalyze(ss))

\* Lines 386-390: the result and the product analysed are stored when
\* analyze_product returns; an exception leaves the state as it was.
AnalysisStep(ss, gen) ==
    IF gen.ok
    THEN Put(Put(ss, "last_result", gen.text), "last_product", ProductToAnalyze(ss))
    ELSE ss

\* What the run did about the analysis.
AnalysisOutcome(ss, ev, key, gen) ==
    IF ~AnalysisAsked(ss, ev) THEN "none"
    ELSE IF key = "" THEN "nokey"
    ELSE IF gen.ok THEN "success"
    ELSE gen.error

\* main(): one run of the script, for the event that caused it, with the key in
\* effect, the default file as it is now and the outcome of the generation call.
MainState(ss, ev, key, file, gen) ==
    LET ready == DefaultStep(ExampleStep(InputStep(ss, ev), ev), file)
    IN  IF AnalysisAsked(ready, ev) /\ key # "" THEN AnalysisStep(ready, gen) ELSE ready

\* Lines 391-407: a failed analysis ends the run at st.stop(), before the display.
Stopped(ss, ev, key, gen) ==
    AnalysisOutcome(ss, ev, key, gen) \notin {"none", "nokey", "success"}

\* Lines 378-406: what the run shows about the analysis it was asked for.
AnalysisUi(ss, ev, key, gen) ==
    IF ~AnalysisAsked(ss, ev) THEN <<>>
    ELSE IF key = "" THEN <<UiCall("error", NoKeyMessage, <<>>)>>
    ELSE IF gen.ok THEN <<>>
    ELSE ErrorUi(gen.msg)

NoGen ==
    [ok |-> FALSE, text |-> <<>>, error |-> "none", msg |-> <<>>,
     reply |-> NoReply]

\* One script run.  The first run of a session has no event: the widgets do not
\* exist before it.  The default file is read only when the default breakdown is
\* due, and the generation service is called only when an analysis runs.
Main ==
    \E ev \in Events :
        LET before == ExampleStep(InputStep(session, ev), ev)
        IN  \E file \in (IF DefaultDue(before) THEN DefaultFiles ELSE {<<>>}) :
              LET ready == DefaultStep(before, file)
                  runs == AnalysisAsked(ready, ev) /\ api_key # ""
              IN  \E gen \in (IF runs THEN GenOutcomes ELSE {NoGen}) :
                    LET after == MainState(session, ev, api_key, file, gen)
                        stopped == Stopped(ready, ev, api_key, gen)
                        shown == ~stopped /\ Has(after, "last_result")
                    IN  /\ started \/ ev.kind = "none"
                        /\ started' = TRUE
                        /\ session' = after
                        /\ outcome' =
                              [analysis |-> AnalysisOutcome(ready, ev, api_key, gen),
                               default_loaded |-> DefaultDue(before) /\ file # <<>>,
                               product |-> IF AnalysisAsked(ready, ev)
                                           THEN ProductToAnalyze(ready) ELSE <<>>,
                               result |-> gen.text,
                               reply |-> gen.reply,
                               gen_calls |-> IF runs THEN 1 ELSE 0,
                               ui |-> AnalysisUi(ready, ev, api_key, gen),
                               stopped |-> stopped]
                        /\ sections' =
                              IF shown THEN parse_analysis_sections(after["last_result"])
                              ELSE <<>>
                        /\ index_items' = IndexItems(sections')
                        /\ sink' = IF shown THEN RenderFragments(sections') ELSE <<>>
                        /\ UNCHANGED <<api_key, analyze, text, tpc, isUrl, scrapeVars>>

\* Lines 309-314: the user enters a key (the run it causes changes nothing else).
EnterKey ==
    /\ started
    /\ \E k \in TypedKeys : api_key' = k
    /\ UNCHANGED <<started, session, outcome, analyze, textVars, scrapeVars>>

NoOutcome ==
    [analysis |-> "none", default_loaded |-> FALSE, product |-> <<>>, result |-> <<>>,
     reply |-> NoReply, gen_calls |-> 0, ui |-> <<>>, stopped |-> FALSE]

Init ==
    /\ started = FALSE
    /\ session = <<>>
    /\ api_key \in TypedKeys
    /\ outcome = NoOutcome
    /\ analyze = "off"
    /\ text = <<>>
    /\ tpc = "off"
    /\ isUrl = FALSE
    /\ sections = <<>>
    /\ index_items = <<>>
    /\ sink = <<>>
    /\ ScrapeIdle

Next == Main \/ EnterKey

Spec == Init /\ [][Next]_vars

\* ------------------------------------------------------------------ analyze_product

MAX_PRODUCT_INPUT_LENGTH == 2000

\* A product input: the characters of head, followed by fill more characters, none
\* of them whitespace (a long name, or the path of a long URL); url is what urlparse
\* makes of it where it is a URL.
ProductInput(h, n, u) == [head |-> h, fill |-> n, url |-> u]

\* The host of a URL as it is typed: its labels joined by dots.
RECURSIVE HostText(_)
HostText(host) ==
    IF host = <<>> THEN <<>>
    ELSE IF Len(host) = 1 THEN <<Head(host)>>
    ELSE <<Head(host), ".">> \o HostText(Tail(host))

\* The text of a URL: a netloc "[" is one urlparse rejects.
UrlText(scheme, u) ==
    scheme \o <<":", "/", "/">> \o (IF u.malformed THEN <<"[">> ELSE HostText(u.host))

\* What the user may ask to analyse: a name, short or long, a URL, a URL in
\* surrounding whitespace, a long URL, a URL with its scheme in capitals.
ProductInputs ==
    {ProductInput(<<"F", "i", "g", "m", "a">>, n, NoUrl) :
        n \in {0, MAX_PRODUCT_INPUT_LENGTH - 5, MAX_PRODUCT_INPUT_LENGTH + 500}}
        \cup {ProductInput(<<" ", "F", "i", "g", "m", "a", "\n">>, 0, NoUrl)}
        \cup {ProductInput(UrlText(<<"h", "t", "t", "p">>, u), 0, u) : u \in Urls}
        \cup {ProductInput(<<" ">> \o UrlText(<<"h", "t", "t", "p", "s">>, u)
                               \o <<"/", " ">>, 0, u) :
                 u \in {[malformed |-> FALSE, host |-> <<"example", "com">>]}}
        \cup {ProductInput(UrlText(<<"h", "t", "t", "p", "s">>, u) \o <<"/">>,
                           MAX_PRODUCT_INPUT_LENGTH + 500, u) :
                 u \in {[malformed |-> FALSE, host |-> <<"example", "com">>]}}
        \cup {ProductInput(UrlText(<<"H", "T", "T", "P">>, u), 0, u) :
                 u \in {[malformed |-> FALSE, host |-> <<"example", "com">>]}}

\* product_input.strip()
InputStrip(inp) ==
    [head |-> IF inp.fill = 0 THEN Strip(inp.head) ELSE LStrip(inp.head),
     fill |-> inp.fill]

InputLen(t) == Len(t.head) + t.fill

\* Lines 241-243: the first MAX_PRODUCT_INPUT_LENGTH characters of the stripped
\* input, and "\n[...truncated]" after them when there were more.
TruncateInput(inp) ==
    LET t == InputStrip(inp)
        kept == IF Len(t.head) > MAX_PRODUCT_INPUT_LENGTH
                THEN MAX_PRODUCT_INPUT_LENGTH ELSE Len(t.head)
    IN  [head |-> SubSeq(t.head, 1, kept),
         fill |-> IF InputLen(t) > MAX_PRODUCT_INPUT_LENGTH
                  THEN MAX_PRODUCT_INPUT_LENGTH - kept ELSE t.fill,
         marker |-> InputLen(t) > MAX_PRODUCT_INPUT_LENGTH]

\* The empty string, as a scraped text.
EmptyText == TextR(0, FALSE)

\* Python's truth test of what scrape_url returned: None and "" are false.
Truthy(scraped) == scraped.kind = "text" /\ scraped.len > 0

\* The context block of build_prompt: the heading that says the text is data only,
\* the scraped text between two "---" lines, the closing instruction.
ContextSection(url_context) == [present |-> TRUE, url_context |-> url_context]

NoContextSection == [present |-> FALSE, url_context |-> EmptyText]

\* build_prompt with the context block written whatever url_context is.
build_prompt_unconditional(product_input, url_context) ==
    [product_input |-> product_input, url_context |-> ContextSection(url_context)]

\* build_prompt(product_input, url_context): the two substitutions made in
\* OUTPUT_TEMPLATE; the context block is there when url_context is not empty.
build_prompt(product_input, url_context) ==
    [product_input |-> product_input,
     url_context |-> IF url_context.len > 0 THEN ContextSection(url_context)
                     ELSE NoContextSection]

\* Lines 237 and 239: the captions under the spinner.
LoadedCaption == "Webpage content loaded successfully."

FallbackCaption == "Couldn't read the webpage. Using AI knowledge instead."

\* analyze_product not running.
NoAnalysis ==
    [pc |-> "idle", product_input |-> ProductInput(<<>>, 0, NoUrl),
     is_url |-> FALSE, guard |-> "none", gets |-> 0, scraped |-> NoneR,
     url_context |-> EmptyText, ui |-> <<>>, prompts |-> <<>>, ret |-> NoGen]

\* Lines 228-233: analyze_product(product_input, api_key) is called; an input that
\* looks like a URL is handed to scrape_url.
AnalyzeCall ==
    /\ analyze.pc = "idle"
    /\ pc = "idle"
    /\ \E inp \in ProductInputs :
          IF looks_like_url(inp.head)
          THEN /\ analyze' = [NoAnalysis EXCEPT !.pc = "scrape", !.product_input = inp,
                                                !.is_url = TRUE]
               /\ pc' = "guard"
               /\ url' = inp.url
               /\ guardDns' = NoDns
               /\ verdict' = "none"
               /\ requests' = <<>>
               /\ response' = NoResponse
               /\ result' = NoneR
          ELSE /\ analyze' = [NoAnalysis EXCEPT !.pc = "prompt", !.product_input = inp]
               /\ UNCHANGED scrapeVars
    /\ UNCHANGED <<started, session, api_key, outcome, textVars>>

\* Lines 234-239: scrape_url has returned; a text that is not empty becomes the
\* context, anything else leaves it empty, and a caption says which.  An exception
\* out of scrape_url would end analyze_product there.
AnalyzeScraped ==
    /\ analyze.pc = "scrape"
    /\ pc = "done"
    /\ analyze' =
          [analyze EXCEPT
              !.pc = IF result.kind = "raised" THEN "raised" ELSE "prompt",
              !.guard = verdict,
              !.gets = Len(requests),
              !.scraped = result,
              !.url_context = IF Truthy(result) THEN result ELSE EmptyText,
              !.ui = IF result.kind = "raised" THEN <<>>
                     ELSE IF Truthy(result)
                          THEN <<UiCall("caption", LoadedCaption, <<>>)>>
                          ELSE <<UiCall("caption", FallbackCaption, <<>>)>>]
    /\ pc' = "idle"
    /\ url' = NoUrl
    /\ guardDns' = NoDns
    /\ verdict' = "none"
    /\ requests' = <<>>
    /\ response' = NoResponse
    /\ result' = NoneR
    /\ UNCHANGED <<started, session, api_key, outcome, textVars>>

\* Lines 241-272: the input is stripped and cut, the prompt is built, the one
\* generate_content call is made with it, and its reply decides what
\* analyze_product returns or raises.
AnalyzeGenerate ==
    /\ analyze.pc = "prompt"
    /\ \E reply \in ServiceReplies :
          analyze' =
              [analyze EXCEPT
                  !.pc = "done",
                  !.prompts = Append(@, build_prompt(TruncateInput(analyze.product_input),
                                                     analyze.url_context)),
                  !.ret = GenOutcome(reply)]
    /\ UNCHANGED <<started, session, api_key, outcome, textVars, scrapeVars>>

\* The caller has the text or the exception; the next call may come.
AnalyzeReturn ==
    /\ analyze.pc \in {"done", "raised"}
    /\ analyze' = NoAnalysis
    /\ UNCHANGED <<started, session, api_key, outcome, textVars, scrapeVars>>

InitAnalyze ==
    /\ pc = "idle"
    /\ url = NoUrl
    /\ guardDns = NoDns
    /\ verdict = "none"
    /\ requests = <<>>
    /\ response = NoResponse
    /\ result = NoneR
    /\ TextIdle
    /\ started = FALSE
    /\ session = <<>>
    /\ api_key = "key"
    /\ outcome = "off"
    /\ analyze = NoAnalysis

NextAnalyze ==
    \/ AnalyzeCall
    \/ ScrapeGuard
    \/ ScrapeGet
    \/ ScrapeParse
    \/ AnalyzeScraped
    \/ AnalyzeGenerate
    \/ AnalyzeReturn

SpecAnalyze == InitAnalyze /\ [][NextAnalyze]_vars

\* ------------------------------------------------------------------ properties: session

\* The persisted pair: whether each field is there, and what it holds.
LastPair(ss) ==
    [has_result |-> Has(ss, "last_result"),
     result |-> IF Has(ss, "last_result") THEN ss["last_result"] ELSE <<>>,
     has_product |-> Has(ss, "last_product"),
     product |-> IF Has(ss, "last_product") THEN ss["last_product"] ELSE <<>>]

BothOrNeither(ss) == Has(ss, "last_result") <=> Has(ss, "last_product")

\* A run whose analysis succeeded left that run's result and product in the pair.
SuccessStored(ss, o) ==
    o.analysis = "success" =>
        /\ Has(ss, "last_result") /\ ss["last_result"] = o.result
        /\ Has(ss, "last_product") /\ ss["last_product"] = o.product

\* A run whose analysis failed, or was refused for lack of a key.
Unsuccessful(o) == o.analysis \notin {"none", "success"}

\* C10 as claimed: the pair (last result, last product) changes only in a run whose
\* analysis succeeds, and then holds that run's result and product; a run whose
\* analysis fails or is refused for lack of a key leaves it unchanged; the two
\* fields are both present or both absent.
C10_PairChangesOnlyOnSuccess ==
    [][ /\ LastPair(session') # LastPair(session) => outcome'.analysis = "success"
        /\ SuccessStored(session', outcome')
        /\ Unsuccessful(outcome') => LastPair(session') = LastPair(session)
        /\ BothOrNeither(session') ]_vars

\* The run stored the pre-generated default breakdown under the default product.
DefaultStored(ss, o) ==
    /\ o.default_loaded
    /\ o.analysis = "none"
    /\ Has(ss, "last_result") /\ ss["last_result"] \in DefaultFiles \ {<<>>}
    /\ Has(ss, "last_product") /\ ss["last_product"] = DEFAULT_PRODUCT

\* C10 amended: the pair changes only in a run whose analysis succeeds, and then
\* holds that run's result and product, or in the run that loads the pre-generated
\* default breakdown (no result stored yet, the default product in the field, the
\* breakdown not loaded before), which stores the breakdown and the default product
\* together; a run whose analysis fails or is refused for lack of a key leaves it
\* unchanged; the two fields are both present or both absent.
C10_PairChangesOnSuccessOrDefault ==
    [][ /\ LastPair(session') # LastPair(session) =>
              \/ outcome'.analysis = "success"
              \/ DefaultStored(session', outcome')
        /\ SuccessStored(session', outcome')
        /\ Unsuccessful(outcome') => LastPair(session') = LastPair(session)
        /\ BothOrNeither(session') ]_vars

\* An analysis succeeded over a stored default breakdown: the pair holds the
\* run's result and the product analysed.
C10_Witness ==
    /\ outcome.analysis = "success"
    /\ Has(session, "default_breakdown_loaded")
    /\ Has(session, "last_result") /\ session["last_result"] = outcome.result
    /\ Has(session, "last_product") /\ session["last_product"] = outcome.product
    /\ session["last_product"] # DEFAULT_PRODUCT

\* ------------------------------------------------------------------ properties: failures

\* Whether a response without text reports a safety or content-block reason: on its
\* first candidate, or on the prompt.
ReportsBlock(reply) ==
    \/ reply.block_reason # "none"
    \/ reply.candidates # <<>> /\ reply.candidates[1] = "SAFETY"

\* The category of a generation failure, from what the service replied.
FailureCategory(reply) ==
    CASE reply.kind = "notext" -> IF ReportsBlock(reply) THEN "blocked" ELSE "empty"
      [] reply.kind = "raised" /\ reply.status \in {"PERMISSION_DENIED", "API_KEY_INVALID"}
            -> "auth"
      [] reply.kind = "raised" /\ reply.status = "RESOURCE_EXHAUSTED" -> "rate"
      [] OTHER -> "other"

\* The category whose message the run showed.
MessageCategory(ui) ==
    IF ui = <<>> THEN "nothing"
    ELSE CASE ui[1].msg = InvalidKeyMessage -> "auth"
           [] ui[1].msg = RateLimitMessage -> "rate"
           [] ui[1].msg = SomethingWentWrong /\ ui[1].detail = BlockedMessage -> "blocked"
           [] ui[1].msg = SomethingWentWrong /\ ui[1].detail = NoTextMessage -> "empty"
           [] OTHER -> "other"

\* A run whose generation call failed.
GenerationFailed(o) == o.analysis \notin {"none", "nokey", "success"}

\* C11: a run whose generation call failed shows the message of the failure's own
\* category (blocked, no text, invalid credentials, rate limited, or the unknown
\* failure with the raw detail) and of no other, and then halts, having made the
\* generation call once.
C11_FailureUnderOwnMessage ==
    GenerationFailed(outcome) =>
        /\ MessageCategory(outcome.ui) = FailureCategory(outcome.reply)
        /\ FailureCategory(outcome.reply) = "other" =>
              outcome.ui[1].detail = outcome.reply.msg
        /\ outcome.stopped
        /\ outcome.gen_calls = 1

\* A failed run halts at st.stop() with one generation call made and nothing of the
\* result displayed.
FailedRunHalts ==
    GenerationFailed(outcome) =>
        outcome.stopped /\ outcome.gen_calls = 1 /\ sink = <<>> /\ outcome.ui # <<>>

\* ------------------------------------------------------------------ properties: fallback

\* The product input as the prompt must carry it: the stripped input whole when it
\* has at most MAX_PRODUCT_INPUT_LENGTH characters, else its first
\* MAX_PRODUCT_INPUT_LENGTH characters with the truncation marker after them.
CarriesInput(q, inp) ==
    LET t == InputStrip(inp)
    IN  /\ InputLen(t) <= MAX_PRODUCT_INPUT_LENGTH =>
              q = [head |-> t.head, fill |-> t.fill, marker |-> FALSE]
        /\ InputLen(t) > MAX_PRODUCT_INPUT_LENGTH =>
              /\ q.marker
              /\ Len(q.head) + q.fill = MAX_PRODUCT_INPUT_LENGTH
              /\ Len(q.head) <= Len(t.head)
              /\ q.head = SubSeq(t.head, 1, Len(q.head))
              /\ q.fill <= t.fill
              /\ q.fill > 0 => q.head = t.head

\* The scrape of a URL input gave nothing to use: the guard refused the URL, or the
\* extraction failed, or the text extracted is empty.
ScrapeGaveNothing(a) ==
    /\ a.is_url
    /\ \/ a.guard # "True"
       \/ a.scraped.kind # "text"
       \/ a.scraped.len = 0

FallbackCases ==
    /\ analyze.pc = "done" /\ analyze.guard = "False" =>
          analyze.gets = 0 /\ analyze.ui = <<UiCall("caption", FallbackCaption, <<>>)>>
    /\ analyze.pc = "done" /\ analyze.is_url /\ analyze.scraped = EmptyText =>
          analyze.ui = <<UiCall("caption", FallbackCaption, <<>>)>>

====
